---- MODULE Spec2Model ----
(***************************************************************************)
(* Model of openapi-mcp-server: the HTTP dispatcher (handleMcp), its two   *)
(* tool handlers (handleGetApiOverview, handleGetApiOperation), the pure   *)
(* helpers they call (generateOverview, matchOperation) and the stdio      *)
(* transport's tool handlers (HANDLERS).                                   *)
(*                                                                         *)
(* Documents are records whose optional members are optional record        *)
(* fields (k \in DOMAIN d).  A JavaScript object with string keys in       *)
(* insertion order (paths) is a sequence of [path, item] entries.          *)
(* Strings are TLA+ strings; a string too long to write down is a Str      *)
(* record [s, pad]: the characters s followed by pad filler characters.    *)
(***************************************************************************)
EXTENDS Integers, Sequences, FiniteSets, TLC

\* ------------------------------------------------------------------ bounds
MaxOpsPerPath == 2

\* ------------------------------------------------------- program constants
OverviewLimit == 250000
LongItemsLimit == 50000
HeaderLines == 3
ParseErrorCode == -32700
MethodNotFoundCode == -32601
InvalidParamsCode == -32602

\* ----------------------------------------------------------------- strings
Has(d, k) == k \in DOMAIN d

Lit(str) == [s |-> str, pad |-> 0]

StrLen(p) == Len(p.s) + p.pad

RECURSIVE TextLen(_)
TextLen(t) == IF t = <<>> THEN 0 ELSE StrLen(Head(t)) + TextLen(Tail(t))

\* Array.prototype.join: the elements with sep between consecutive ones
RECURSIVE Join(_, _)
Join(lines, sep) ==
    IF lines = <<>> THEN <<>>
    ELSE IF Len(lines) = 1 THEN lines[1]
    ELSE lines[1] \o <<sep>> \o Join(Tail(lines), sep)

\* String.prototype.slice(1)
Slice1(str) == IF Len(str) <= 1 THEN "" ELSE SubSeq(str, 2, Len(str))

\* index of the first "/" of str at or after position i, 0 when there is none
RECURSIVE IndexOfSlash(_, _)
IndexOfSlash(str, i) ==
    IF i > Len(str) THEN 0
    ELSE IF SubSeq(str, i, i) = "/" THEN i
    ELSE IndexOfSlash(str, i + 1)

StartsWith(str, pre) ==
    Len(str) >= Len(pre) /\ SubSeq(str, 1, Len(pre)) = pre

\* String.prototype.split("/")[0]
SplitSlashFirst(str) ==
    LET i == IndexOfSlash(str, 1)
    IN  IF i = 0 THEN str ELSE SubSeq(str, 1, i - 1)

\* new URL(str): parses only with a scheme; .origin is scheme://host
UrlScheme(str) ==
    IF StartsWith(str, "https://") THEN "https://"
    ELSE IF StartsWith(str, "http://") THEN "http://"
    ELSE ""

UrlParses(str) == UrlScheme(str) # "" /\ Len(str) > Len(UrlScheme(str))

UrlOrigin(str) ==
    LET from == Len(UrlScheme(str)) + 1
        i == IndexOfSlash(str, from)
    IN  IF i = 0 THEN str ELSE SubSeq(str, 1, i - 1)

\* String.prototype.toUpperCase / toLowerCase on the method names
toUpperCase(m) ==
    CASE m = "get" -> "GET" [] m = "post" -> "POST" [] m = "put" -> "PUT"
      [] m = "patch" -> "PATCH" [] m = "delete" -> "DELETE" [] OTHER -> m

toLowerCase(m) ==
    CASE m = "GET" -> "get" [] m = "POST" -> "post" [] m = "PUT" -> "put"
      [] m = "PATCH" -> "patch" [] m = "DELETE" -> "delete" [] OTHER -> m

\* the method list of generateOverview and matchOperation
Methods == <<"get", "post", "put", "patch", "delete">>

MethodSet == {Methods[i] : i \in DOMAIN Methods}

\* the value JavaScript calls undefined
Undefined == [undefined |-> TRUE]

\* ------------------------------------------------------ overview generator
\* generateOverview.getServerOrigin: an operation's own servers member wins
\* whenever it is present (an empty array is truthy)
getServerOrigin(operation, rootServers) ==
    LET servers == IF Has(operation, "servers") THEN operation.servers
                   ELSE rootServers
    IN  IF Len(servers) = 0 THEN ""
        ELSE IF UrlParses(servers[1].url) THEN UrlOrigin(servers[1].url)
        ELSE SplitSlashFirst(servers[1].url)

\* the servers.length test left out: servers[0] of an empty array is undefined
getServerOriginThrowsUnguarded(operation, rootServers) ==
    LET servers == IF Has(operation, "servers") THEN operation.servers
                   ELSE rootServers
    IN  Len(servers) = 0 \/ ~Has(servers[1], "url")

\* generateOverview.getServerOrigin throws when servers[0] has no url: new
\* URL(undefined) throws, and in the catch undefined.split throws again
getServerOriginThrows(operation, rootServers) ==
    LET servers == IF Has(operation, "servers") THEN operation.servers
                   ELSE rootServers
    IN  Len(servers) > 0 /\ ~Has(servers[1], "url")

RootServers(openapi) ==
    IF Has(openapi, "servers") THEN openapi.servers ELSE <<>>

\* parameters?.filter(in === "query")?.map(name=type||name)?.join("&")
RECURSIVE QueryParams(_)
QueryParams(params) ==
    IF params = <<>> THEN <<>>
    ELSE LET p == Head(params)
             rest == QueryParams(Tail(params))
         IN  IF p.in = "query"
             THEN <<p.name \o "=" \o (IF Has(p, "schema") /\ Has(p.schema, "type")
                                          THEN p.schema.type ELSE p.name)>>
                      \o rest
             ELSE rest

RECURSIVE JoinStr(_, _)
JoinStr(strs, sep) ==
    IF strs = <<>> THEN ""
    ELSE IF Len(strs) = 1 THEN strs[1]
    ELSE strs[1] \o sep \o JoinStr(Tail(strs), sep)

\* the item generateOverview pushes for one operation
OverviewItem(hostname, openapi, path, method, operation) ==
    LET serverOrigin == getServerOrigin(operation, RootServers(openapi))
        operationId == IF Has(operation, "operationId") /\ operation.operationId # ""
                       THEN operation.operationId ELSE ""
        queryParams == IF Has(operation, "parameters")
                       THEN JoinStr(QueryParams(operation.parameters), "&")
                       ELSE ""
        queryString == IF queryParams # "" THEN "?" \o queryParams ELSE ""
        summaryPart == IF Has(operation, "summary") /\ StrLen(operation.summary) > 0
                       THEN <<Lit(" - "), operation.summary>> ELSE <<>>
    IN  [operationId |-> operationId,
         pathPart |-> toUpperCase(method) \o " " \o serverOrigin \o path \o queryString,
         summaryPart |-> summaryPart,
         openapiUrl |-> "https://oapis.org/openapi/" \o hostname \o
                        (IF operationId # "" THEN "/" \o operationId ELSE path)]

\* for (const method of methods) ... of one path item, from the j-th method on
RECURSIVE ItemsOfPath(_, _, _, _)
ItemsOfPath(hostname, openapi, entry, j) ==
    IF j > Len(Methods) THEN <<>>
    ELSE (IF Has(entry.item, Methods[j])
          THEN <<OverviewItem(hostname, openapi, entry.path, Methods[j],
                              entry.item[Methods[j]])>>
          ELSE <<>>)
         \o ItemsOfPath(hostname, openapi, entry, j + 1)

\* for (const [path, pathItem] of Object.entries(openapi.paths))
RECURSIVE ItemsOfPaths(_, _, _)
ItemsOfPaths(hostname, openapi, entries) ==
    IF entries = <<>> THEN <<>>
    ELSE ItemsOfPath(hostname, openapi, Head(entries), 1)
         \o ItemsOfPaths(hostname, openapi, Tail(entries))

OverviewItems(hostname, openapi) ==
    IF Has(openapi, "paths") THEN ItemsOfPaths(hostname, openapi, openapi.paths)
    ELSE <<>>

\* generateOverview throws: one of its getServerOrigin calls does (every
\* other member is read with ?. or tested before use)
generateOverviewThrows(hostname, openapi) ==
    \/ /\ Has(openapi, "info")
       /\ getServerOriginThrows(Undefined, RootServers(openapi))
    \/ /\ Has(openapi, "paths")
       /\ \E i \in DOMAIN openapi.paths :
             \E m \in (DOMAIN openapi.paths[i].item) \cap MethodSet :
                getServerOriginThrows(openapi.paths[i].item[m], RootServers(openapi))

\* JSON.stringify(items).length
RECURSIVE ItemsJsonLen(_)
ItemsJsonLen(items) ==
    IF items = <<>> THEN 0
    ELSE LET it == Head(items)
         IN  65 + Len(it.operationId) + Len(it.pathPart) + TextLen(it.summaryPart)
                + Len(it.openapiUrl)
                + (IF Len(items) > 1 THEN 1 ELSE 0)
                + ItemsJsonLen(Tail(items))

JsonStringifyLen(items) == 2 + ItemsJsonLen(items)

\* the line of one item
ItemLine(item, isLong) ==
    <<Lit("- "), Lit(item.operationId)>>
    \o (IF isLong THEN <<Lit(" ")>> ELSE <<Lit(" "), Lit(item.pathPart)>>)
    \o item.summaryPart
    \o <<Lit(" ( Spec: "), Lit(item.openapiUrl), Lit(" )")>>

\* the lines pushed for openapi.info
HeaderOutput(openapi) ==
    IF Has(openapi, "info")
    THEN <<  <<Lit(openapi.info.title), Lit(" v"), Lit(openapi.info.version),
               Lit(" - "), Lit(getServerOrigin(Undefined, RootServers(openapi)))>> >>
         \o (IF Has(openapi.info, "description") /\ StrLen(openapi.info.description) > 0
             THEN << <<openapi.info.description>> >> ELSE <<>>)
         \o << <<>> >>
    ELSE <<>>

\* const endpointCount = output.length - 3
EndpointCount(output) == Len(output) - HeaderLines

BannerLine(hostname, endpointCount) ==
    <<Lit("Below is an overview of the "), Lit(hostname),
      Lit(" openapi in simple language. This API contains "),
      Lit(ToString(endpointCount)),
      Lit(" endpoints. For more detailed information of an endpoint, visit https://oapis.org/summary/"),
      Lit(hostname), Lit("/[idOrRoute]")>>

\* the banner pushed after the operation lines
OverviewLinesBannerLast(hostname, openapi) ==
    LET items == OverviewItems(hostname, openapi)
        isLong == JsonStringifyLen(items) > LongItemsLimit
        output == HeaderOutput(openapi)
                  \o [i \in 1..Len(items) |-> ItemLine(items[i], isLong)]
    IN  output \o <<BannerLine(hostname, EndpointCount(output))>>

\* the output array of generateOverview before output.join("\n")
OverviewLines(hostname, openapi) ==
    LET items == OverviewItems(hostname, openapi)
        isLong == JsonStringifyLen(items) > LongItemsLimit
        output == HeaderOutput(openapi)
                  \o [i \in 1..Len(items) |-> ItemLine(items[i], isLong)]
    IN  <<BannerLine(hostname, EndpointCount(output)), <<>>>> \o output

generateOverview(hostname, openapi) ==
    Join(OverviewLines(hostname, openapi), Lit("\n"))

\* ------------------------------------------------------- operation matcher
\* openapi.paths[pathname]: the item stored under the key, if any
RECURSIVE PathItemAt(_, _)
PathItemAt(entries, pathname) ==
    IF entries = <<>> THEN Undefined
    ELSE IF Head(entries).path = pathname THEN Head(entries).item
    ELSE PathItemAt(Tail(entries), pathname)

\* the last matching method of the list instead of the first
FindMethodLast(pathItem, normalizedPathname, j) ==
    LET matching == {i \in j..Len(Methods) :
                        /\ Has(pathItem, Methods[i])
                        /\ Has(pathItem[Methods[i]], "operationId")
                        /\ pathItem[Methods[i]].operationId = normalizedPathname}
    IN  IF matching = {} THEN Undefined
        ELSE [method |-> Methods[CHOOSE i \in matching : \A k \in matching : k <= i]]

\* ["get", ...].find(m => pathItem?.[m]?.operationId === normalizedPathname)
RECURSIVE FindMethod(_, _, _)
FindMethod(pathItem, normalizedPathname, j) ==
    IF j > Len(Methods) THEN Undefined
    ELSE IF /\ Has(pathItem, Methods[j])
            /\ Has(pathItem[Methods[j]], "operationId")
            /\ pathItem[Methods[j]].operationId = normalizedPathname
         THEN [method |-> Methods[j]]
         ELSE FindMethod(pathItem, normalizedPathname, j + 1)

\* the operationId loop over Object.entries(openapi.paths)
RECURSIVE MatchByOperationId(_, _)
MatchByOperationId(entries, normalizedPathname) ==
    IF entries = <<>> THEN Undefined
    ELSE LET matchingMethod == FindMethod(Head(entries).item, normalizedPathname, 1)
         IN  IF matchingMethod # Undefined
             THEN [operation |-> Head(entries).item[matchingMethod.method],
                   originalPath |-> Head(entries).path,
                   method |-> toUpperCase(matchingMethod.method)]
             ELSE MatchByOperationId(Tail(entries), normalizedPathname)

\* openapi.paths[pathname]?.get
DirectMatch(openapi, pathname) ==
    LET item == PathItemAt(openapi.paths, pathname)
    IN  IF Has(item, "get") THEN item.get ELSE Undefined

\* the operationId loop tried before the direct path
matchOperationIdFirst(openapi, pathname) ==
    IF ~Has(openapi, "paths") THEN Undefined
    ELSE IF MatchByOperationId(openapi.paths, Slice1(pathname)) # Undefined
         THEN MatchByOperationId(openapi.paths, Slice1(pathname))
    ELSE IF DirectMatch(openapi, pathname) # Undefined
         THEN [operation |-> DirectMatch(openapi, pathname),
               originalPath |-> pathname,
               method |-> "GET"]
    ELSE Undefined

matchOperation(openapi, pathname) ==
    IF ~Has(openapi, "paths") THEN Undefined
    ELSE IF DirectMatch(openapi, pathname) # Undefined
         THEN [operation |-> DirectMatch(openapi, pathname),
               originalPath |-> pathname,
               method |-> "GET"]
    ELSE MatchByOperationId(openapi.paths, Slice1(pathname))

\* --------------------------------------------------------- tool handlers
TextContent(text) == <<[type |-> "text", text |-> text]>>

ErrorResult(message) ==
    [content |-> TextContent(<<Lit("Error: ")>> \o message), isError |-> TRUE]

OkResult(text) == [content |-> TextContent(text), isError |-> FALSE]

\* js-yaml dump: one top-level entry per key the document has
KeyOrder == <<"swagger", "openapi", "info", "servers", "tags", "paths",
              "components", "webhooks", "message">>

RECURSIVE DumpFrom(_, _)
DumpFrom(d, i) ==
    IF i > Len(KeyOrder) THEN <<>>
    ELSE (IF Has(d, KeyOrder[i])
          THEN <<[key |-> KeyOrder[i], value |-> d[KeyOrder[i]]]>> ELSE <<>>)
         \o DumpFrom(d, i + 1)

dump(d) == DumpFrom(d, 1)

\* only "3.1" taken for OpenAPI 3.x
isSwaggerNarrow(openapiJson) ==
    \/ Has(openapiJson, "swagger")
    \/ ~Has(openapiJson, "openapi")
    \/ ~StartsWith(openapiJson.openapi, "3.1")

\* const isSwagger = json?.swagger || !json?.openapi || !json.openapi.startsWith("3.")
isSwagger(openapiJson) ==
    \/ Has(openapiJson, "swagger")
    \/ ~Has(openapiJson, "openapi")
    \/ ~StartsWith(openapiJson.openapi, "3.")

\* if (!convertedOpenapi?.openapi) throw new Error("Conversion failed")
ConversionFailed(convertedOpenapi) ==
    convertedOpenapi = Undefined \/ ~Has(convertedOpenapi, "openapi")

TooLargeMessage ==
    <<Lit("The OpenAPI specification is too large to process with this MCP. Please try a different OpenAPI.")>>

\* error.message of the TypeError generateOverview throws
GenerateThrewMessage ==
    <<Lit("Cannot read properties of undefined (reading 'split')")>>

\* the overview returned whatever its length
OverviewResultNoCeiling(id, convertedOpenapi) ==
    IF ConversionFailed(convertedOpenapi)
    THEN ErrorResult(<<Lit("Conversion failed")>>)
    ELSE IF generateOverviewThrows(id, convertedOpenapi)
    THEN ErrorResult(GenerateThrewMessage)
    ELSE OkResult(generateOverview(id, convertedOpenapi))

\* handleGetApiOverview from the conversion check to its return
OverviewResult(id, convertedOpenapi) ==
    IF ConversionFailed(convertedOpenapi)
    THEN ErrorResult(<<Lit("Conversion failed")>>)
    ELSE IF generateOverviewThrows(id, convertedOpenapi)
    THEN ErrorResult(GenerateThrewMessage)
    ELSE LET overview == generateOverview(id, convertedOpenapi)
         IN  IF TextLen(overview) > OverviewLimit
             THEN ErrorResult(TooLargeMessage)
             ELSE OkResult(overview)

\* the list without its last member
IdListMethodsShort == <<"get", "post", "delete", "put">>

\* [item.get?.operationId, item.post?..., item.delete?..., item.put?..., item.patch?...]
IdListMethods == <<"get", "post", "delete", "put", "patch">>

RECURSIVE ItemOperationIds(_, _)
ItemOperationIds(item, j) ==
    IF j > Len(IdListMethods) THEN <<>>
    ELSE (IF /\ Has(item, IdListMethods[j])
             /\ Has(item[IdListMethods[j]], "operationId")
             /\ item[IdListMethods[j]].operationId # ""
          THEN <<item[IdListMethods[j]].operationId>> ELSE <<>>)
         \o ItemOperationIds(item, j + 1)

\* Object.values(paths).map(...).flat()
RECURSIVE OperationIds(_)
OperationIds(entries) ==
    IF entries = <<>> THEN <<>>
    ELSE ItemOperationIds(Head(entries).item, 1) \o OperationIds(Tail(entries))

\* Object.keys(paths)
RouteKeys(entries) == [i \in 1..Len(entries) |-> entries[i].path]

LitSeq(strs) == [i \in 1..Len(strs) |-> <<Lit(strs[i])>>]

NotFoundMessage(openapi) ==
    <<Lit("Operation wasn't found. Available IDs: ")>>
    \o Join(LitSeq(OperationIds(openapi.paths)), Lit(", "))
    \o <<Lit(". Routes: ")>>
    \o Join(LitSeq(RouteKeys(openapi.paths)), Lit(", "))

\* const subset = {...convertedOpenapi, paths: {[originalPath]: {[method]: operation}}}
Subset(convertedOpenapi, op) ==
    [k \in DOMAIN convertedOpenapi |->
        IF k = "paths"
        THEN <<[path |-> op.originalPath,
                item |-> (toLowerCase(op.method) :> op.operation)]>>
        ELSE convertedOpenapi[k]]

\* dereferenceSync when it returns: every $ref of the operations replaced by
\* the schema it points to, the top-level members kept
DerefOperation(operation) ==
    [k \in DOMAIN operation |->
        IF k = "responses" /\ Has(operation[k], "ref")
        THEN [schema |-> "object"] ELSE operation[k]]

dereferenceSync(doc) ==
    [k \in DOMAIN doc |->
        IF k = "paths"
        THEN [i \in 1..Len(doc.paths) |->
                [path |-> doc.paths[i].path,
                 item |-> [m \in DOMAIN doc.paths[i].item |->
                              DerefOperation(doc.paths[i].item[m])]]]
        ELSE doc[k]]

\* const {tags, webhooks, components, ...dereferenced} = ...
StripKeys == {"tags", "webhooks", "components"}

StripRest(doc) == [k \in (DOMAIN doc) \ StripKeys |-> doc[k]]

\* a dereferencing failure passed on to the outer catch
DetailResultRethrow(subset, derefThrows) ==
    IF derefThrows THEN ErrorResult(<<Lit("dereference failed")>>)
    ELSE OkResult(dump(StripRest(dereferenceSync(subset))))

\* the try / catch around dereferenceSync
DetailResult(subset, derefThrows) ==
    IF derefThrows THEN OkResult(dump(subset))
    ELSE OkResult(dump(StripRest(dereferenceSync(subset))))

\* handleGetApiOperation from the conversion check to its return
OperationResult(operationIdOrRoute, convertedOpenapi, derefThrows) ==
    IF ConversionFailed(convertedOpenapi)
    THEN ErrorResult(<<Lit("Conversion failed")>>)
    ELSE LET op == matchOperation(convertedOpenapi, "/" \o operationIdOrRoute)
         IN  IF op = Undefined
             THEN IF ~Has(convertedOpenapi, "paths")
                  THEN ErrorResult(<<Lit("Cannot convert undefined or null to object")>>)
                  ELSE ErrorResult(NotFoundMessage(convertedOpenapi))
             ELSE DetailResult(Subset(convertedOpenapi, op), derefThrows)

\* ------------------------------------------------- documents the upstream serves
Routes == {"/foo", "/bar"}

OperationIdDomain == {"", "foo"}

InlineResponses == [schema |-> "object"]

RefResponses == [ref |-> "#/components/schemas/Pet"]

\* an operation with the given operationId ("" for none)
OperationWithId(id) ==
    IF id = "" THEN [responses |-> InlineResponses]
    ELSE [operationId |-> id, responses |-> InlineResponses]

MatchOperations == {OperationWithId(id) : id \in OperationIdDomain}

PathItems ==
    UNION {[M -> MatchOperations] :
             M \in {S \in SUBSET MethodSet : Cardinality(S) <= MaxOpsPerPath}}

RouteSeqs ==
    {rs \in UNION {[1..n -> Routes] : n \in 0..Cardinality(Routes)} :
        \A i, j \in DOMAIN rs : rs[i] = rs[j] => i = j}

PathSeqs ==
    UNION {{[i \in DOMAIN rs |-> [path |-> rs[i], item |-> f[i]]] :
               f \in [DOMAIN rs -> PathItems]} : rs \in RouteSeqs}

InfoPlain == [title |-> "Pet Store", version |-> "1.0"]

InfoDescribed ==
    [title |-> "Pet Store", version |-> "1.0", description |-> Lit("A sample API")]

\* a description of OverviewLimit characters
InfoLong ==
    [title |-> "Pet Store", version |-> "1.0",
     description |-> [s |-> "", pad |-> OverviewLimit]]

ListPets ==
    [operationId |-> "listPets", summary |-> Lit("List pets"),
     parameters |-> <<[name |-> "limit", in |-> "query", schema |-> [type |-> "integer"]]>>,
     responses |-> RefResponses]

\* no operationId, a path parameter, its own server, a summary of
\* LongItemsLimit characters
DeletePet ==
    [summary |-> [s |-> "Delete", pad |-> LongItemsLimit],
     parameters |-> <<[name |-> "petId", in |-> "path"], [name |-> "force", in |-> "query"]>>,
     servers |-> <<[url |-> "admin.example.com/v2"]>>,
     responses |-> InlineResponses]

\* an operation that declares an empty servers list
CreatePet ==
    [operationId |-> "createPet", summary |-> Lit("Create a pet"),
     servers |-> << >>, responses |-> InlineResponses]

PetStorePaths == <<[path |-> "/pets", item |-> [get |-> ListPets]]>>

OverviewPaths ==
    { <<>>,
      PetStorePaths,
      <<[path |-> "/pets", item |-> [get |-> ListPets, post |-> OperationWithId("foo")]],
        [path |-> "/pets/{petId}", item |-> [delete |-> OperationWithId("")]]>>,
      <<[path |-> "/pets", item |-> [get |-> ListPets]],
        [path |-> "/pets/{petId}", item |-> [delete |-> DeletePet]]>>,
      <<[path |-> "/pets", item |-> [get |-> ListPets, post |-> CreatePet]]>> }

\* a parsable url (with and without a description), an unparsable one, none
ServerLists ==
    { <<[url |-> "https://api.example.com/v1"]>>,
      <<[url |-> "https://api.example.com/v1", description |-> "Production"]>>,
      <<[url |-> "api.example.com/v1"]>>,
      << >> }

\* r with the member k set to v
With(r, k, v) == [x \in (DOMAIN r) \cup {k} |-> IF x = k THEN v ELSE r[x]]

Openapi3 == [openapi |-> "3.0.0"]

\* documents that differ in their paths only
MatchDocs == {With(With(Openapi3, "info", InfoPlain), "paths", p) : p \in PathSeqs}

\* documents that differ in info, servers and a few paths
OverviewDocs ==
    LET infos == {Openapi3} \cup {With(Openapi3, "info", i) :
                                    i \in {InfoPlain, InfoDescribed, InfoLong}}
        served == infos \cup {With(d, "servers", sv) : d \in infos, sv \in ServerLists}
    IN  served \cup {With(d, "paths", p) : d \in served, p \in OverviewPaths}

\* Pet Store with every combination of tags, webhooks and components
ExtrasDocs ==
    LET base == With(With(Openapi3, "info", InfoPlain), "paths", PetStorePaths)
    IN  {[k \in (DOMAIN base) \cup X |->
            IF k \in DOMAIN base THEN base[k] ELSE [name |-> k]] : X \in SUBSET StripKeys}

\* documents the handlers classify as legacy
LegacyDocs ==
    LET body == With(With(<< >>, "info", InfoPlain), "paths", PetStorePaths)
    IN  { With(body, "swagger", "2.0"),
          body,
          With(body, "openapi", "2.0"),
          With(With(body, "swagger", "2.0"), "openapi", "3.0.0") }

Docs == MatchDocs \cup OverviewDocs \cup ExtrasDocs \cup LegacyDocs

\* what the converter's response body can parse to
ConverterDocs ==
    LET body == With(With(<< >>, "info", InfoDescribed), "paths", PetStorePaths)
    IN  { With(body, "openapi", "3.0.1"),
          With(With(body, "openapi", "3.0.1"), "components", [name |-> "components"]),
          With(body, "openapi", "2.0"),
          With(With(<< >>, "openapi", "3.0.1"), "info", InfoPlain),
          [message |-> "conversion error"] }

\* ------------------------------------------------------------- requests
ApiIds == {"petstore"}

Tokens == {"foo", "bar", "/foo", "listPets"}

\* the arguments member of a getApiOverview call: id optional
OverviewArguments == { << >> } \cup {[id |-> i] : i \in ApiIds}

\* the arguments member of a getApiOperation call: both members optional
OperationArguments ==
    { << >> }
    \cup {[id |-> i] : i \in ApiIds}
    \cup {[operationIdOrRoute |-> t] : t \in {"foo"}}
    \cup {[id |-> i, operationIdOrRoute |-> t] : i \in ApiIds, t \in Tokens}

ToolNames == {"getApiOverview", "getApiOperation", "executeOperation"}

\* the params member of a tools/call: arguments optional
ToolCallParams ==
    {[name |-> n] : n \in ToolNames}
    \cup {[name |-> "getApiOverview", arguments |-> a] : a \in OverviewArguments}
    \cup {[name |-> "getApiOperation", arguments |-> a] : a \in OperationArguments}
    \cup {[name |-> "executeOperation", arguments |-> << >>]}

PlainMethods ==
    {"ping", "initialize", "notifications/initialized", "prompts/list",
     "resources/list", "resources/read", "tools/list", "tools/call",
     "completion/complete"}

\* the JSON-RPC messages a body can parse to
Messages ==
    {[id |-> "1", method |-> m] : m \in PlainMethods}
    \cup {[id |-> "1", method |-> "resources/read", params |-> [uri |-> "file:///x"]]}
    \cup {[id |-> "1", method |-> "tools/call", params |-> q] : q \in ToolCallParams}

\* request.json(): rejects, or resolves to null or to a message
Bodies ==
    {[parse |-> "fail"], [parse |-> "null"]}
    \cup {[parse |-> "ok", message |-> m] : m \in Messages}

HttpRequests ==
    {[transport |-> "http", httpMethod |-> "POST", path |-> "/mcp", sse |-> FALSE,
      body |-> b] : b \in Bodies}
    \cup {[transport |-> "http", httpMethod |-> hm, path |-> q, sse |-> e,
           body |-> [parse |-> "fail"]] :
             hm \in {"GET", "OPTIONS", "DELETE"}, q \in {"/", "/mcp", "/other"},
             e \in BOOLEAN}

\* the CallToolRequest the stdio server's handler receives
StdioRequests ==
    {[transport |-> "stdio", params |-> q] : q \in ToolCallParams}

\* ------------------------------------------------------------ responses
NullId == "null"

jsonRpcResponse(id, result) ==
    [status |-> 200, body |-> [jsonrpc |-> "2.0", id |-> id, result |-> result]]

jsonRpcError(id, code, message) ==
    [status |-> 200,
     body |-> [jsonrpc |-> "2.0", id |-> id,
               error |-> [code |-> code, message |-> message]]]

PlainResponse(status, text) == [status |-> status, body |-> [text |-> text]]

ParseErrorResponse == jsonRpcError(NullId, ParseErrorCode, <<Lit("Parse error")>>)

\* the catch of the tools/call branch of handleMcp
ToolThrewResponse(id, message) ==
    jsonRpcResponse(id,
        [content |-> TextContent(<<Lit("Error executing tool: ")>> \o message),
         isError |-> TRUE])

\* ------------------------------------------------------------ dispatcher
getInitializeResult ==
    [protocolVersion |-> "2025-06-18",
     serverInfo |-> [name |-> "openapi-mcp-server", version |-> "2.2.0"]]

\* where a handler stands after its synchronous start: suspended at an
\* upstream await (response Undefined) or done with a response
Suspended(at) == [pc |-> at, response |-> Undefined]

Done(resp) == [pc |-> "done", response |-> resp]

\* handleGetApiOverview up to await searchOpenapi(id); args undefined makes
\* the destructuring throw, which the caller's catch turns into a result
StartGetApiOverview(id, params) ==
    IF ~Has(params, "arguments")
    THEN Done(ToolThrewResponse(id, <<Lit("Cannot destructure property 'id'")>>))
    ELSE IF ~Has(params.arguments, "id") \/ params.arguments.id = ""
    THEN Done(jsonRpcResponse(id, ErrorResult(<<Lit("'id' parameter is required")>>)))
    ELSE Suspended("search")

\* handleGetApiOperation up to await searchOpenapi(id)
StartGetApiOperation(id, params) ==
    IF ~Has(params, "arguments")
    THEN Done(ToolThrewResponse(id, <<Lit("Cannot destructure property 'id'")>>))
    ELSE IF \/ ~Has(params.arguments, "id") \/ params.arguments.id = ""
            \/ ~Has(params.arguments, "operationIdOrRoute")
            \/ params.arguments.operationIdOrRoute = ""
    THEN Done(jsonRpcResponse(id, ErrorResult(
            <<Lit("Both 'id' and 'operationIdOrRoute' parameters are required")>>)))
    ELSE Suspended("search")

\* the try block of handleMcp after request.json() resolved to message; a
\* TypeError thrown in it lands in the catch that answers Parse error
HandleMessage(message) ==
    CASE message.method = "ping" -> Done(jsonRpcResponse(message.id, << >>))
      [] message.method = "initialize" ->
            Done(jsonRpcResponse(message.id, getInitializeResult))
      [] message.method = "notifications/initialized" ->
            Done([status |-> 202, body |-> [empty |-> TRUE]])
      [] message.method = "prompts/list" ->
            Done(jsonRpcResponse(message.id, [prompts |-> <<>>]))
      [] message.method = "resources/list" ->
            Done(jsonRpcResponse(message.id, [resources |-> <<>>]))
      [] message.method = "resources/read" ->
            IF ~Has(message, "params") THEN Done(ParseErrorResponse)
            ELSE Done(jsonRpcError(message.id, InvalidParamsCode,
                        <<Lit("Resource not found: "), Lit(message.params.uri)>>))
      [] message.method = "tools/list" -> Suspended("catalog")
      [] message.method = "tools/call" ->
            IF ~Has(message, "params") THEN Done(ParseErrorResponse)
            ELSE IF message.params.name = "getApiOverview"
                 THEN StartGetApiOverview(message.id, message.params)
            ELSE IF message.params.name = "getApiOperation"
                 THEN StartGetApiOperation(message.id, message.params)
            ELSE Done(jsonRpcResponse(message.id,
                    [content |-> TextContent(<<Lit("Error: Unknown tool: "),
                                               Lit(message.params.name)>>),
                     isError |-> TRUE]))
      [] OTHER ->
            Done(jsonRpcError(message.id, MethodNotFoundCode,
                    <<Lit("Method not found: "), Lit(message.method)>>))

handleMcp(req) ==
    IF req.httpMethod = "GET" /\ req.sse
    THEN Done(PlainResponse(405, "Only Streamable HTTP is supported"))
    ELSE IF req.httpMethod = "GET"
    THEN Done([status |-> 200, body |-> getInitializeResult])
    ELSE IF req.httpMethod # "POST"
    THEN Done(PlainResponse(405, "Method not allowed"))
    ELSE IF req.body.parse = "fail" THEN Done(ParseErrorResponse)
    ELSE IF req.body.parse = "null" THEN Done(ParseErrorResponse)
    ELSE HandleMessage(req.body.message)

\* export default { fetch }
fetchHandler(req) ==
    IF req.httpMethod = "OPTIONS" THEN Done([status |-> 204, body |-> [empty |-> TRUE]])
    ELSE IF req.path = "/"
    THEN Done([status |-> 302, location |-> "/mcp", body |-> [empty |-> TRUE]])
    ELSE IF req.path # "/mcp" THEN Done(PlainResponse(404, "Not found"))
    ELSE handleMcp(req)

\* ------------------------------------------------------- stdio transport
\* texts the oapis.org endpoints can answer with: short, exactly
\* OverviewLimit characters, one more
RemoteTexts ==
    { <<Lit("Pet Store v1.0 - ")>>,
      <<[s |-> "", pad |-> OverviewLimit]>>,
      <<[s |-> "x", pad |-> OverviewLimit]>> }

\* fetch(url) of a HANDLERS entry: rejects, or resolves with ok and a text
RemoteOutcomes ==
    {[kind |-> "rejects"]}
    \cup {[kind |-> "response", ok |-> o, text |-> t] : o \in BOOLEAN, t \in RemoteTexts}

StdioError(message) ==
    [content |-> TextContent(<<Lit("Error: ")>> \o message),
     metadata |-> << >>, isError |-> TRUE]

StdioOk(text) == [content |-> TextContent(text), metadata |-> << >>]

\* the catch of the CallToolRequestSchema handler
StdioCaught(message) ==
    [toolResult |-> [content |-> TextContent(<<Lit("Error: ")>> \o message),
                     isError |-> TRUE]]

\* the CallToolRequestSchema handler up to the handler's await fetch(url)
StartStdioCall(params) ==
    IF params.name \notin {"getApiOverview", "getApiOperation"}
    THEN Done(StdioCaught(<<Lit("Unknown tool: "), Lit(params.name)>>))
    ELSE IF ~Has(params, "arguments")
    THEN Done(StdioCaught(<<Lit("Cannot destructure property 'id'")>>))
    ELSE Suspended("remote")

\* HANDLERS.getApiOverview / getApiOperation after fetch(url) settled
StdioResult(name, out) ==
    IF out.kind = "rejects" THEN StdioError(<<Lit("fetch failed")>>)
    ELSE IF ~out.ok THEN StdioError(<<Lit("API error: ")>> \o out.text)
    ELSE IF name = "getApiOverview" /\ TextLen(out.text) > OverviewLimit
    THEN StdioError(TooLargeMessage)
    ELSE StdioOk(out.text)

\* -------------------------------------------------------- upstream answers
\* what searchOpenapi gives the handler: undefined (a fetch not ok, or text
\* neither JSON nor YAML), a throw (a fetch rejects, or the text is null),
\* a falsy openapiJson, or a document
SearchOutcomes ==
    {[kind |-> "undefined"], [kind |-> "throws"], [kind |-> "falsy"]}
    \cup {[kind |-> "doc", doc |-> d] : d \in Docs}

\* the upstream of the worker when two of its requests are in flight: Pet
\* Store as OpenAPI 3 and as Swagger 2, and a document whose operations
\* share an operationId
ConcDocs ==
    { With(With(With(Openapi3, "info", InfoDescribed), "paths", PetStorePaths),
           "servers", <<[url |-> "https://api.example.com/v1"]>>),
      With(With(With(<< >>, "info", InfoPlain), "paths", PetStorePaths),
           "swagger", "2.0"),
      With(With(Openapi3, "info", InfoPlain), "paths",
           <<[path |-> "/foo", item |-> [get |-> OperationWithId("")]],
             [path |-> "/bar", item |-> [post |-> OperationWithId("foo")]]>>) }

ConcSearchOutcomes ==
    {[kind |-> "undefined"], [kind |-> "throws"], [kind |-> "falsy"]}
    \cup {[kind |-> "doc", doc |-> d] : d \in ConcDocs}

\* what convertSwaggerToOpenapi resolves to: the parsed body, or undefined
\* when the fetch rejected, was aborted, or the body was not JSON
ConverterOutcomes == {Undefined} \cup ConverterDocs

\* what fetch("https://openapisearch.com/").then(res => res.text()) does
CatalogOutcomes == {[kind |-> "rejects"], [kind |-> "text", text |-> "petstore, github"]}

ToolDescriptors(openapiIds) ==
    <<[name |-> "getApiOverview", catalog |-> openapiIds, required |-> <<"id">>],
      [name |-> "getApiOperation", catalog |-> openapiIds,
       required |-> <<"id", "operationIdOrRoute">>]>>

\* ---------------------------------------------------------------- state
VARIABLES pc, request, fetched, converted, convCalls, deref, response, timer

vars == <<pc, request, fetched, converted, convCalls, deref, response, timer>>

\* the requests the runtime can be handling at once; every variable is a
\* function of the slot, as every value of the handlers is local to one call.
\* A slot that is "off" takes no request: Init serves one request at a time.
Slots == {"s1", "s2"}

InitSlots(active) ==
    /\ pc = [r \in Slots |-> IF r \in active THEN "idle" ELSE "off"]
    /\ request = [r \in Slots |-> Undefined]
    /\ fetched = [r \in Slots |-> Undefined]
    /\ converted = [r \in Slots |-> Undefined]
    /\ convCalls = [r \in Slots |-> 0]
    /\ deref = [r \in Slots |-> "none"]
    /\ response = [r \in Slots |-> Undefined]
    /\ timer = [r \in Slots |-> "unset"]

Init == InitSlots({"s1"})

ToolName(r) ==
    IF request[r].transport = "http" THEN request[r].body.message.params.name
    ELSE request[r].params.name

\* the arguments held in one place for all requests: another request's
\* call of the same tool overwrites them
ToolArgsShared(r) ==
    LET others == {o \in Slots \ {r} :
                     /\ request[r].transport = "http"
                     /\ pc[o] \in {"search", "convert", "aborted"}
                     /\ request[o].transport = "http"
                     /\ request[o].httpMethod = "POST"
                     /\ request[o].path = "/mcp"
                     /\ request[o].body.parse = "ok"
                     /\ request[o].body.message.method = "tools/call"
                     /\ Has(request[o].body.message, "params")
                     /\ Has(request[o].body.message.params, "arguments")
                     /\ request[o].body.message.params.name
                          = request[r].body.message.params.name}
    IN  IF others # {}
        THEN request[CHOOSE o \in others : TRUE].body.message.params.arguments
        ELSE IF request[r].transport = "http"
        THEN request[r].body.message.params.arguments
        ELSE request[r].params.arguments

ToolArgs(r) ==
    IF request[r].transport = "http" THEN request[r].body.message.params.arguments
    ELSE request[r].params.arguments

MessageId(r) == request[r].body.message.id

\* the dereferencing call is reached only for a matched operation
DerefReached(name, args, convertedOpenapi) ==
    /\ name = "getApiOperation"
    /\ ~ConversionFailed(convertedOpenapi)
    /\ matchOperation(convertedOpenapi, "/" \o args.operationIdOrRoute) # Undefined

\* both handlers from the conversion check to the return
ToolResult(name, args, convertedOpenapi, derefThrows) ==
    IF name = "getApiOverview" THEN OverviewResult(args.id, convertedOpenapi)
    ELSE OperationResult(args.operationIdOrRoute, convertedOpenapi, derefThrows)

\* the handler runs from the normalized document to its response
Finish(r, convertedOpenapi) ==
    \E derefThrows \in (IF DerefReached(ToolName(r), ToolArgs(r), convertedOpenapi)
                        THEN BOOLEAN ELSE {FALSE}) :
        /\ converted' = [converted EXCEPT ![r] = convertedOpenapi]
        /\ deref' = [deref EXCEPT ![r] =
                        IF ~DerefReached(ToolName(r), ToolArgs(r), convertedOpenapi)
                        THEN "none"
                        ELSE IF derefThrows THEN "threw" ELSE "returned"]
        /\ response' = [response EXCEPT ![r] =
                          jsonRpcResponse(MessageId(r),
                              ToolResult(ToolName(r), ToolArgs(r), convertedOpenapi,
                                         derefThrows))]
        /\ pc' = [pc EXCEPT ![r] = "done"]

FailWith(r, message) ==
    /\ response' = [response EXCEPT ![r] =
                      jsonRpcResponse(MessageId(r), ErrorResult(message))]
    /\ pc' = [pc EXCEPT ![r] = "done"]
    /\ UNCHANGED <<converted, deref>>

\* a request arrives at export default fetch and runs to its first await
Receive(r) ==
    /\ pc[r] = "idle"
    /\ \E req \in HttpRequests :
        /\ request' = [request EXCEPT ![r] = req]
        /\ pc' = [pc EXCEPT ![r] = fetchHandler(req).pc]
        /\ response' = [response EXCEPT ![r] = fetchHandler(req).response]
    /\ UNCHANGED <<fetched, converted, convCalls, deref, timer>>

\* await searchOpenapi(id) settles and the handler runs on to its next await
\* (the converter, whose call arms the 10 second timer) or to its return;
\* outcomes is what the upstream can answer
SearchReturnOf(r, outcomes) ==
    /\ pc[r] = "search"
    /\ \E out \in outcomes :
        CASE out.kind = "undefined" ->
                /\ FailWith(r, <<Lit("OpenAPI not found")>>)
                /\ UNCHANGED <<fetched, convCalls>>
          [] out.kind = "throws" ->
                /\ FailWith(r, <<Lit("fetch failed")>>)
                /\ UNCHANGED <<fetched, convCalls>>
          [] out.kind = "falsy" ->
                /\ FailWith(r, <<Lit("Could not parse OpenAPI JSON")>>)
                /\ UNCHANGED <<fetched, convCalls>>
          [] out.kind = "doc" ->
                /\ fetched' = [fetched EXCEPT ![r] = out.doc]
                /\ IF isSwagger(out.doc)
                   THEN /\ convCalls' = [convCalls EXCEPT ![r] = @ + 1]
                        /\ pc' = [pc EXCEPT ![r] = "convert"]
                        /\ UNCHANGED <<converted, deref, response>>
                   ELSE /\ Finish(r, out.doc)
                        /\ UNCHANGED convCalls
    /\ timer' = [timer EXCEPT ![r] = IF pc'[r] = "convert" THEN "armed" ELSE @]
    /\ UNCHANGED request

SearchReturn(r) == SearchReturnOf(r, SearchOutcomes)

\* the converter's fetch settles before the timer fired: clearTimeout, and
\* the handler runs on from await convertSwaggerToOpenapi(openapiUrl)
ConvertReturn(r) ==
    /\ pc[r] = "convert"
    /\ \E out \in ConverterOutcomes : Finish(r, out)
    /\ timer' = [timer EXCEPT ![r] = "cleared"]
    /\ UNCHANGED <<request, fetched, convCalls>>

\* the timer callback that leaves the fetch alone
TimerFiresNoAbort(r) ==
    /\ timer[r] = "armed"
    /\ timer' = [timer EXCEPT ![r] = "fired"]
    /\ UNCHANGED <<pc, request, fetched, converted, convCalls, deref, response>>

\* setTimeout(() => abortController.abort(), 10000) comes due: a fetch still
\* pending is aborted, a settled one is not touched
TimerFires(r) ==
    /\ timer[r] = "armed"
    /\ timer' = [timer EXCEPT ![r] = "fired"]
    /\ pc' = [pc EXCEPT ![r] = IF @ = "convert" THEN "aborted" ELSE @]
    /\ UNCHANGED <<request, fetched, converted, convCalls, deref, response>>

\* the aborted fetch rejects: .catch gives undefined, and the handler runs
\* on from await convertSwaggerToOpenapi(openapiUrl) with it
AbortReturn(r) ==
    /\ pc[r] = "aborted"
    /\ Finish(r, Undefined)
    /\ UNCHANGED <<request, fetched, convCalls, timer>>

\* the catalog fetch of tools/list settles; a rejection lands in the catch
\* of handleMcp
CatalogReturn(r) ==
    /\ pc[r] = "catalog"
    /\ \E out \in CatalogOutcomes :
        response' = [response EXCEPT ![r] =
            IF out.kind = "rejects" THEN ParseErrorResponse
            ELSE jsonRpcResponse(MessageId(r), [tools |-> ToolDescriptors(out.text)])]
    /\ pc' = [pc EXCEPT ![r] = "done"]
    /\ UNCHANGED <<request, fetched, converted, convCalls, deref, timer>>

\* a tool call arrives at the stdio server
StdioCall(r) ==
    /\ pc[r] = "idle"
    /\ \E req \in StdioRequests :
        /\ request' = [request EXCEPT ![r] = req]
        /\ pc' = [pc EXCEPT ![r] = StartStdioCall(req.params).pc]
        /\ response' = [response EXCEPT ![r] = StartStdioCall(req.params).response]
    /\ UNCHANGED <<fetched, converted, convCalls, deref, timer>>

\* await fetch(url) of the stdio handler settles
RemoteReturn(r) ==
    /\ pc[r] = "remote"
    /\ \E out \in RemoteOutcomes :
        /\ fetched' = [fetched EXCEPT ![r] = out]
        /\ response' = [response EXCEPT ![r] = StdioResult(ToolName(r), out)]
    /\ pc' = [pc EXCEPT ![r] = "done"]
    /\ UNCHANGED <<request, converted, convCalls, deref, timer>>

\* the response is sent; nothing of the request is kept
Respond(r) ==
    /\ pc[r] = "done"
    /\ pc' = [pc EXCEPT ![r] = "idle"]
    /\ request' = [request EXCEPT ![r] = Undefined]
    /\ fetched' = [fetched EXCEPT ![r] = Undefined]
    /\ converted' = [converted EXCEPT ![r] = Undefined]
    /\ convCalls' = [convCalls EXCEPT ![r] = 0]
    /\ deref' = [deref EXCEPT ![r] = "none"]
    /\ response' = [response EXCEPT ![r] = Undefined]
    /\ timer' = [timer EXCEPT ![r] = "unset"]

Next ==
    \E r \in Slots :
        \/ Receive(r)
        \/ SearchReturn(r)
        \/ ConvertReturn(r)
        \/ TimerFires(r)
        \/ AbortReturn(r)
        \/ CatalogReturn(r)
        \/ StdioCall(r)
        \/ RemoteReturn(r)
        \/ Respond(r)

Spec == Init /\ [][Next]_vars

\* the worker with two requests in flight: each await of one request lets the
\* other run
ConcSearchReturn(r) == SearchReturnOf(r, ConcSearchOutcomes)

ConcNext ==
    \E r \in Slots :
        \/ Receive(r)
        \/ ConcSearchReturn(r)
        \/ ConvertReturn(r)
        \/ TimerFires(r)
        \/ AbortReturn(r)
        \/ CatalogReturn(r)
        \/ Respond(r)

ConcSpec == InitSlots(Slots) /\ [][ConcNext]_vars

\* the event loop runs a timer callback that is due and the continuation of
\* a settled promise, and the runtime sends the response a handler returned;
\* nothing obliges an upstream to answer or a client to send a request
FairSpec ==
    /\ Init
    /\ [][Next]_vars
    /\ \A r \in Slots :
          /\ WF_vars(TimerFires(r))
          /\ WF_vars(AbortReturn(r))
          /\ WF_vars(Respond(r))

\* ============================================================== properties
\* a finished tools/call of tool name on the HTTP dispatcher
HttpToolCall(r, name) ==
    /\ pc[r] = "done"
    /\ request[r].transport = "http"
    /\ request[r].httpMethod = "POST"
    /\ request[r].path = "/mcp"
    /\ request[r].body.parse = "ok"
    /\ request[r].body.message.method = "tools/call"
    /\ Has(request[r].body.message, "params")
    /\ request[r].body.message.params.name = name

\* the call got past normalization with a document that has an openapi member
Normalized(r) == converted[r] # Undefined /\ Has(converted[r], "openapi")

ResultOf(r) == response[r].body.result

TextOf(result) == result.content[1].text

\* the value dumped under the top-level key k
DumpedValue(text, k) ==
    LET i == CHOOSE j \in DOMAIN text : text[j].key = k IN text[i].value

DumpedKeys(text) == {text[i].key : i \in DOMAIN text}

HasGetAt(doc, p) ==
    \E i \in DOMAIN doc.paths :
        doc.paths[i].path = p /\ "get" \in DOMAIN doc.paths[i].item

GetAt(doc, p) ==
    LET i == CHOOSE j \in DOMAIN doc.paths : doc.paths[j].path = p
    IN  doc.paths[i].item["get"]

\* the (path index, method) pairs of the operations of doc
OperationPlaces(doc) ==
    IF ~Has(doc, "paths") THEN {}
    ELSE {q \in (DOMAIN doc.paths) \X MethodSet : q[2] \in DOMAIN doc.paths[q[1]].item}

OperationAt(doc, q) == doc.paths[q[1]].item[q[2]]

HasId(doc, q, id) ==
    /\ q[2] \in DOMAIN doc.paths[q[1]].item
    /\ Has(OperationAt(doc, q), "operationId")
    /\ OperationAt(doc, q).operationId = id

\* the operation as it appears in the result: dereferenced or not
Shown(r, operation) ==
    IF deref[r] = "returned" THEN DerefOperation(operation) ELSE operation

\* C1: direct path match takes precedence over operationId match: when the
\* document has a GET operation under "/T" and an operation with
\* operationId "T" elsewhere, getApiOperation with token "T" answers with
\* the GET operation of "/T" (path "/T", method get)
C1_DirectPathPrecedence ==
    \A r \in Slots : \A T \in Tokens :
        ( /\ HttpToolCall(r, "getApiOperation")
          /\ Normalized(r)
          /\ Has(converted[r], "paths")
          /\ ToolArgs(r).operationIdOrRoute = T
          /\ HasGetAt(converted[r], "/" \o T)
          /\ \E q \in OperationPlaces(converted[r]) :
                /\ HasId(converted[r], q, T)
                /\ ~(converted[r].paths[q[1]].path = "/" \o T /\ q[2] = "get") )
        => /\ ResultOf(r).isError = FALSE
           /\ DumpedValue(TextOf(ResultOf(r)), "paths")
                = <<[path |-> "/" \o T,
                     item |-> ("get" :> Shown(r, GetAt(converted[r], "/" \o T)))]>>

\* C1 witness: such a call answered, the operation with operationId "foo"
\* declared under an earlier path than "/foo"
C1_Witness ==
    \E r \in Slots :
        /\ HttpToolCall(r, "getApiOperation")
        /\ Normalized(r)
        /\ Has(converted[r], "paths")
        /\ ToolArgs(r).operationIdOrRoute = "foo"
        /\ Len(converted[r].paths) = 2
        /\ converted[r].paths[2].path = "/foo"
        /\ "get" \in DOMAIN converted[r].paths[2].item
        /\ HasId(converted[r], <<1, "post">>, "foo")
        /\ ResultOf(r).isError = FALSE

\* the first position of piece in text, 0 when it is not there
Pos(text, piece) ==
    IF \E i \in DOMAIN text : text[i] = piece
    THEN CHOOSE i \in DOMAIN text :
            text[i] = piece /\ \A j \in 1..(i - 1) : text[j] # piece
    ELSE 0

IdsMarker == Lit("Operation wasn't found. Available IDs: ")

RoutesMarker == Lit(". Routes: ")

\* the names between "Available IDs: " and ". Routes: "
IdsListed(text) ==
    IF Pos(text, IdsMarker) = 0 \/ Pos(text, RoutesMarker) = 0 THEN {}
    ELSE {text[i].s : i \in (Pos(text, IdsMarker) + 1)..(Pos(text, RoutesMarker) - 1)}
         \ {", "}

\* the names after ". Routes: "
RoutesListed(text) ==
    IF Pos(text, RoutesMarker) = 0 THEN {}
    ELSE {text[i].s : i \in (Pos(text, RoutesMarker) + 1)..Len(text)} \ {", "}

DeclaredIds(doc) ==
    {OperationAt(doc, q).operationId :
        q \in {x \in OperationPlaces(doc) : Has(OperationAt(doc, x), "operationId")}}

DeclaredRoutes(doc) ==
    IF Has(doc, "paths") THEN {doc.paths[i].path : i \in DOMAIN doc.paths} ELSE {}

\* neither a GET under "/T" nor an operation with operationId T
NoOperationMatches(doc, T) ==
    /\ ~(Has(doc, "paths") /\ HasGetAt(doc, "/" \o T))
    /\ \A q \in OperationPlaces(doc) : ~HasId(doc, q, T)

\* C2: getApiOperation with a token that matches no operation answers
\* isError: true, and the message lists every declared operationId (any of
\* the five methods, every path) and every route key of paths
C2_NotFoundEnumerates ==
    \A r \in Slots :
        ( /\ HttpToolCall(r, "getApiOperation")
          /\ Normalized(r)
          /\ NoOperationMatches(converted[r], ToolArgs(r).operationIdOrRoute) )
        => /\ ResultOf(r).isError = TRUE
           /\ DeclaredIds(converted[r]) \subseteq IdsListed(TextOf(ResultOf(r)))
           /\ DeclaredRoutes(converted[r]) \subseteq RoutesListed(TextOf(ResultOf(r)))

\* C2 witness: a token matching nothing in a document of two routes with an
\* operationId declared under patch
C2_Witness ==
    \E r \in Slots :
        /\ HttpToolCall(r, "getApiOperation")
        /\ Normalized(r)
        /\ NoOperationMatches(converted[r], ToolArgs(r).operationIdOrRoute)
        /\ Cardinality(DeclaredRoutes(converted[r])) = 2
        /\ \E q \in OperationPlaces(converted[r]) :
              q[2] = "patch" /\ Has(OperationAt(converted[r], q), "operationId")
        /\ ResultOf(r).isError = TRUE

\* a finished getApiOverview call on the stdio server whose upstream answered ok
StdioOverviewAnswered(r) ==
    /\ pc[r] = "done"
    /\ request[r].transport = "stdio"
    /\ request[r].params.name = "getApiOverview"
    /\ fetched[r] # Undefined
    /\ fetched[r].kind = "response"
    /\ fetched[r].ok

TooLargeText ==
    <<Lit("Error: "),
      Lit("The OpenAPI specification is too large to process with this MCP. Please try a different OpenAPI.")>>

\* C3: an overview longer than 250,000 characters is answered with the
\* 'too large' error, never with text; a success carries the complete
\* overview, of at most 250,000 characters (both transports)
C3_OverviewCeiling ==
    \A r \in Slots :
        /\ (HttpToolCall(r, "getApiOverview") /\ Normalized(r))
           => LET overview == generateOverview(ToolArgs(r).id, converted[r])
              IN  /\ TextLen(overview) > 250000
                     => /\ ResultOf(r).isError = TRUE
                        /\ TextOf(ResultOf(r)) = TooLargeText
                  /\ ResultOf(r).isError = FALSE
                     => /\ TextOf(ResultOf(r)) = overview
                        /\ TextLen(TextOf(ResultOf(r))) <= 250000
        /\ StdioOverviewAnswered(r)
           => /\ TextLen(fetched[r].text) > 250000
                 => /\ Has(response[r], "isError") /\ response[r].isError = TRUE
                    /\ TextOf(response[r]) = TooLargeText
              /\ ~Has(response[r], "isError")
                 => /\ TextOf(response[r]) = fetched[r].text
                    /\ TextLen(TextOf(response[r])) <= 250000

\* C3 witness: an overview over the ceiling was generated and refused
C3_Witness ==
    \E r \in Slots :
        /\ HttpToolCall(r, "getApiOverview")
        /\ Normalized(r)
        /\ TextLen(generateOverview(ToolArgs(r).id, converted[r])) > 250000
        /\ ResultOf(r).isError = TRUE

\* the number printed in "This API contains N endpoints"
BannerNumber(text) == text[4].s

\* C4: the banner's endpoint count equals the number of operation lines,
\* the number of (path, method) pairs of the document
C4_BannerCountsOperations ==
    \A r \in Slots :
        ( /\ HttpToolCall(r, "getApiOverview")
          /\ Normalized(r)
          /\ ResultOf(r).isError = FALSE )
        => BannerNumber(TextOf(ResultOf(r)))
             = ToString(Cardinality(OperationPlaces(converted[r])))

\* a finished call of either tool on the HTTP dispatcher
HttpToolDone(r) ==
    HttpToolCall(r, "getApiOverview") \/ HttpToolCall(r, "getApiOperation")

\* a swagger member, or no openapi member, or one that does not start "3."
IsLegacy(doc) ==
    \/ "swagger" \in DOMAIN doc
    \/ "openapi" \notin DOMAIN doc
    \/ SubSeq(doc.openapi, 1, 2) # "3."

ConversionFailedText == <<Lit("Error: "), Lit("Conversion failed")>>

\* C5: for a legacy input the call goes on with a document whose openapi
\* starts with "3." or fails with the conversion error
C5_LegacyNeverPassedOn ==
    \A r \in Slots :
        ( /\ HttpToolDone(r)
          /\ fetched[r] # Undefined
          /\ IsLegacy(fetched[r]) )
        => \/ Normalized(r) /\ StartsWith(converted[r].openapi, "3.")
           \/ /\ ResultOf(r).isError = TRUE
              /\ TextOf(ResultOf(r)) = ConversionFailedText

\* C6: a document with no swagger member and an openapi member starting
\* "3." is never sent to the converter, and the document the handler goes
\* on with is the parsed document
C6_NoConversionFor3x ==
    \A r \in Slots :
        ( /\ pc[r] \in {"convert", "done"}
          /\ request[r].transport = "http"
          /\ fetched[r] # Undefined
          /\ ~IsLegacy(fetched[r]) )
        => /\ convCalls[r] = 0
           /\ pc[r] = "done"
           /\ converted[r] = fetched[r]

\* C6 witness: an OpenAPI 3.x document was fetched and the call answered
C6_Witness ==
    \E r \in Slots :
        /\ HttpToolDone(r)
        /\ fetched[r] # Undefined
        /\ ~IsLegacy(fetched[r])
        /\ ResultOf(r).isError = FALSE

\* C7: a successful getApiOperation result has no top-level tags, webhooks
\* or components
C7_NoStrippedKeys ==
    \A r \in Slots :
        ( /\ HttpToolCall(r, "getApiOperation")
          /\ Has(response[r].body, "result")
          /\ ResultOf(r).isError = FALSE )
        => DumpedKeys(TextOf(ResultOf(r))) \cap {"tags", "webhooks", "components"} = {}

\* a finished POST to /mcp whose body parsed as JSON
ParsedPost(r) ==
    /\ pc[r] = "done"
    /\ request[r].transport = "http"
    /\ request[r].httpMethod = "POST"
    /\ request[r].path = "/mcp"
    /\ request[r].body.parse # "fail"

\* C8: a tools/call whose body parses is answered with a result object
\* (content and isError), never with a JSON-RPC error object
C8_ToolCallNeverRpcError ==
    \A r \in Slots :
        ( /\ ParsedPost(r)
          /\ request[r].body.parse = "ok"
          /\ request[r].body.message.method = "tools/call" )
        => /\ ~Has(response[r].body, "error")
           /\ Has(response[r].body, "result")
           /\ Has(ResultOf(r), "content")
           /\ Has(ResultOf(r), "isError")

\* C9: a POST to /mcp whose body is parseable JSON is never answered with
\* code -32700
C9_ParseErrorOnlyForUnparsable ==
    \A r \in Slots :
        ParsedPost(r)
        => ~(Has(response[r].body, "error") /\ response[r].body.error.code = -32700)

\* C10: when dereferencing throws, getApiOperation answers isError: false
\* with the un-dereferenced document cut down to the one matched path and
\* the one matched method
C10_DerefFailureFallsBack ==
    \A r \in Slots :
        ( HttpToolCall(r, "getApiOperation") /\ deref[r] = "threw" )
        => LET text == TextOf(ResultOf(r))
               paths == DumpedValue(text, "paths")
               T == ToolArgs(r).operationIdOrRoute
           IN  /\ ResultOf(r).isError = FALSE
               /\ DumpedKeys(text) = DOMAIN converted[r]
               /\ \A k \in (DOMAIN converted[r]) \ {"paths"} :
                     DumpedValue(text, k) = converted[r][k]
               /\ Len(paths) = 1
               /\ \E q \in OperationPlaces(converted[r]) :
                     /\ paths[1].path = converted[r].paths[q[1]].path
                     /\ DOMAIN paths[1].item = {q[2]}
                     /\ paths[1].item[q[2]] = OperationAt(converted[r], q)
                     /\ \/ paths[1].path = "/" \o T /\ q[2] = "get"
                        \/ HasId(converted[r], q, T)

\* C10 witness: dereferencing threw for an operation that holds a $ref, in
\* a document with another operation
C10_Witness ==
    \E r \in Slots :
        /\ HttpToolCall(r, "getApiOperation")
        /\ deref[r] = "threw"
        /\ Cardinality(OperationPlaces(converted[r])) >= 2
        /\ ToolArgs(r).operationIdOrRoute = "listPets"
        /\ ResultOf(r).isError = FALSE

\* C11: generateOverview never fails: for every normalized document, with
\* zero operations or with any optional member absent, it does not throw, and
\* the call answers with its text (or with the 'too large' error)
C11_OverviewNeverFails ==
    \A r \in Slots :
        ( HttpToolCall(r, "getApiOverview") /\ Normalized(r) )
        => /\ ~generateOverviewThrows(ToolArgs(r).id, converted[r])
           /\ \/ /\ ResultOf(r).isError = FALSE
                 /\ TextOf(ResultOf(r))
                       = generateOverview(ToolArgs(r).id, converted[r])
              \/ /\ ResultOf(r).isError = TRUE
                 /\ TextOf(ResultOf(r)) = TooLargeText

\* an operation with none of operationId, summary, parameters, servers
BareOperation(operation) ==
    DOMAIN operation = {"responses"}

\* C11 witness: an overview answered for a document with an empty servers
\* list, no info.description and an operation that has none of its optional
\* members
C11_Witness ==
    \E r \in Slots :
        /\ HttpToolCall(r, "getApiOverview")
        /\ Normalized(r)
        /\ Has(converted[r], "info")
        /\ ~Has(converted[r].info, "description")
        /\ Has(converted[r], "servers") /\ converted[r].servers = << >>
        /\ \E q \in OperationPlaces(converted[r]) :
              BareOperation(OperationAt(converted[r], q))
        /\ ResultOf(r).isError = FALSE

\* a call whose conversion was cut off by the timer and that has returned
TimedOut(r) == pc[r] = "done" /\ timer[r] = "fired"

\* C12: a tool call waiting on the converter always completes; when the
\* timer fires first the fetch is aborted and the call completes with
\* isError: true 'Conversion failed'; afterwards the slot is idle again,
\* with nothing of the call left, so later requests are served; a timer
\* cleared by a converter answer never fires
C12_TimeoutFailsConversion ==
    /\ \A r \in Slots : (pc[r] = "convert") ~> (pc[r] = "done")
    /\ \A r \in Slots : (pc[r] = "aborted") ~> TimedOut(r)
    /\ \A r \in Slots :
          [](TimedOut(r) => /\ ResultOf(r).isError = TRUE
                            /\ TextOf(ResultOf(r)) = ConversionFailedText)
    /\ \A r \in Slots : TimedOut(r) ~> (pc[r] = "idle" /\ timer[r] = "unset")
    /\ [][\A r \in Slots : timer[r] = "cleared" => timer'[r] # "fired"]_vars
    /\ \A r \in Slots : [](pc[r] = "aborted" => timer[r] = "fired")

\* C12 witness: the timer fired on a pending conversion and the call has
\* answered 'Conversion failed'
C12_Witness ==
    \E r \in Slots :
        /\ TimedOut(r)
        /\ HttpToolDone(r)
        /\ convCalls[r] = 1
        /\ ResultOf(r).isError = TRUE
        /\ TextOf(ResultOf(r)) = ConversionFailedText

\* a finished tool invocation on the stdio server
StdioToolCall(r) == pc[r] = "done" /\ request[r].transport = "stdio"

\* the stdio invocation succeeded: a known tool, arguments given, the
\* upstream answered ok with a text within the ceiling
StdioSucceeded(r) ==
    /\ request[r].params.name \in {"getApiOverview", "getApiOperation"}
    /\ fetched[r] # Undefined
    /\ fetched[r].kind = "response"
    /\ fetched[r].ok
    /\ (request[r].params.name = "getApiOverview"
          => TextLen(fetched[r].text) <= 250000)

\* {content: [{type: "text", text}], isError: boolean} at the top level
ResultShaped(result) ==
    /\ Has(result, "content")
    /\ Len(result.content) = 1
    /\ DOMAIN result.content[1] = {"type", "text"}
    /\ result.content[1].type = "text"
    /\ Has(result, "isError")
    /\ result.isError \in BOOLEAN

\* C13: in both transports the result of every tool invocation, an unknown
\* tool name included, has a top-level content list of one text block and a
\* top-level boolean isError, false on success and true on failure
C13_SameResultShape ==
    \A r \in Slots :
        /\ (\E name \in ToolNames : HttpToolCall(r, name))
           => /\ Has(response[r].body, "result")
              /\ ResultShaped(ResultOf(r))
        /\ StdioToolCall(r)
           => /\ ResultShaped(response[r])
              /\ response[r].isError = ~StdioSucceeded(r)

\* text.split("\n"): the pieces between consecutive line breaks
SplitLines(text) ==
    LET breaks == {i \in DOMAIN text : text[i] = Lit("\n")}
        n == Cardinality(breaks)
        pos == [k \in 0..(n + 1) |->
                  IF k = 0 THEN 0
                  ELSE IF k = n + 1 THEN Len(text) + 1
                  ELSE CHOOSE i \in breaks :
                          Cardinality({j \in breaks : j < i}) = k - 1]
    IN  [k \in 1..(n + 1) |-> SubSeq(text, pos[k - 1] + 1, pos[k] - 1)]

\* a getApiOverview call answered with an overview
OverviewAnswered(r) ==
    /\ HttpToolCall(r, "getApiOverview")
    /\ Normalized(r)
    /\ ResultOf(r).isError = FALSE

IsBannerLine(line) ==
    Len(line) = 7 /\ line[1] = Lit("Below is an overview of the ")

IsHeaderLine(line, info) ==
    /\ Len(line) = 5
    /\ line[1] = Lit(info.title) /\ line[2] = Lit(" v")
    /\ line[3] = Lit(info.version) /\ line[4] = Lit(" - ")

IsOperationLine(line) ==
    Len(line) >= 3 /\ line[1] = Lit("- ") /\ line[Len(line)] = Lit(" )")

\* the header block of a document: header line, description, blank line
HeaderBlockOk(lines, doc) ==
    IF ~Has(doc, "info") THEN TRUE
    ELSE /\ Len(lines) >= 2
         /\ IsHeaderLine(lines[1], doc.info)
         /\ IF Has(doc.info, "description")
            THEN /\ Len(lines) >= 3
                 /\ lines[2] = <<doc.info.description>>
                 /\ lines[3] = << >>
            ELSE lines[2] = << >>

HeaderBlockLen(doc) ==
    IF ~Has(doc, "info") THEN 0
    ELSE IF Has(doc.info, "description") THEN 3 ELSE 2

\* C14: the overview starts with the header line (title, version, server
\* origin), then the description if present, then a blank line, then the
\* operation lines, and the banner line comes last, after every operation
\* line
C14_BannerTrailing ==
    \A r \in Slots :
        OverviewAnswered(r)
        => LET lines == SplitLines(TextOf(ResultOf(r)))
               n == HeaderBlockLen(converted[r])
           IN  /\ HeaderBlockOk(lines, converted[r])
               /\ IsBannerLine(lines[Len(lines)])
               /\ Len(lines) = n + Cardinality(OperationPlaces(converted[r])) + 1
               /\ \A i \in (n + 1)..(Len(lines) - 1) : IsOperationLine(lines[i])

\* C14 as the code lays the text out: the banner line comes first, then a
\* blank line, then the header line, the description if present, a blank
\* line, and the operation lines, one per operation, up to the end
C14_BannerLeading ==
    \A r \in Slots :
        OverviewAnswered(r)
        => LET lines == SplitLines(TextOf(ResultOf(r)))
               n == HeaderBlockLen(converted[r])
           IN  /\ Len(lines) = 2 + n + Cardinality(OperationPlaces(converted[r]))
               /\ IsBannerLine(lines[1])
               /\ lines[2] = << >>
               /\ HeaderBlockOk(SubSeq(lines, 3, Len(lines)), converted[r])
               /\ \A i \in (n + 3)..Len(lines) : IsOperationLine(lines[i])

\* C14 witness: an overview answered for a document with a description and
\* two operations
C14_Witness ==
    \E r \in Slots :
        /\ OverviewAnswered(r)
        /\ Has(converted[r], "info")
        /\ Has(converted[r].info, "description")
        /\ Cardinality(OperationPlaces(converted[r])) = 2
        /\ Len(SplitLines(TextOf(ResultOf(r)))) = 7

\* C15: getApiOperation called with a route of paths exactly as it is
\* written there (leading "/" included) answers with the GET operation of
\* that route, when the route has one
C15_RouteTokenResolvesGet ==
    \A r \in Slots :
        ( /\ HttpToolCall(r, "getApiOperation")
          /\ Normalized(r)
          /\ Has(converted[r], "paths")
          /\ Has(ToolArgs(r), "operationIdOrRoute")
          /\ HasGetAt(converted[r], ToolArgs(r).operationIdOrRoute) )
        => LET R == ToolArgs(r).operationIdOrRoute
           IN  /\ ResultOf(r).isError = FALSE
               /\ DumpedValue(TextOf(ResultOf(r)), "paths")
                     = <<[path |-> R,
                          item |-> ("get" :> Shown(r, GetAt(converted[r], R)))]>>

\* the position of a method in the order get, post, put, patch, delete
MethodRank(m) ==
    CASE m = "get" -> 1 [] m = "post" -> 2 [] m = "put" -> 3
      [] m = "patch" -> 4 [] m = "delete" -> 5

\* place p comes before place q in path-then-method order
PlaceBefore(p, q) ==
    p[1] < q[1] \/ (p[1] = q[1] /\ MethodRank(p[2]) < MethodRank(q[2]))

\* the places of doc whose operation has operationId id
PlacesWithId(doc, id) == {q \in OperationPlaces(doc) : HasId(doc, q, id)}

\* a getApiOperation call with token T whose direct-path attempt failed
IdLookup(r, T) ==
    /\ HttpToolCall(r, "getApiOperation")
    /\ Normalized(r)
    /\ Has(converted[r], "paths")
    /\ ToolArgs(r).operationIdOrRoute = T
    /\ ~HasGetAt(converted[r], "/" \o T)

\* C16: when the direct-path attempt fails and operations share the
\* operationId equal to the token, the answer is the first of them in
\* path-then-method order (get, post, put, patch, delete), under the path
\* and the method where it is declared
C16_FirstSharedIdWins ==
    \A r \in Slots : \A T \in Tokens :
        ( IdLookup(r, T) /\ PlacesWithId(converted[r], T) # {} )
        => LET first == CHOOSE p \in PlacesWithId(converted[r], T) :
                           \A q \in PlacesWithId(converted[r], T) :
                               q = p \/ PlaceBefore(p, q)
           IN  /\ ResultOf(r).isError = FALSE
               /\ DumpedValue(TextOf(ResultOf(r)), "paths")
                     = <<[path |-> converted[r].paths[first[1]].path,
                          item |-> (first[2] :>
                                      Shown(r, OperationAt(converted[r], first)))]>>

\* C16 witness: the token is the operationId of two operations of one path
\* and of a third under a later path
C16_Witness ==
    \E r \in Slots :
        /\ IdLookup(r, "foo")
        /\ Cardinality(PlacesWithId(converted[r], "foo")) = 3
        /\ \E p, q \in PlacesWithId(converted[r], "foo") : p[1] = 1 /\ q[1] = 2
        /\ ResultOf(r).isError = FALSE

\* the number of the operation line of place q: places in path-then-method
\* order
PlaceRank(doc, q) ==
    1 + Cardinality({p \in OperationPlaces(doc) : PlaceBefore(p, q)})

\* the servers list the origin of the operation at q is taken from: the
\* operation's own when it declares a server, else the document's
ChosenServers(doc, q) ==
    IF Has(OperationAt(doc, q), "servers") /\ OperationAt(doc, q).servers # << >>
    THEN OperationAt(doc, q).servers
    ELSE IF Has(doc, "servers") THEN doc.servers
    ELSE << >>

\* the origin of servers[0].url, or the first segment of an unparsable url,
\* or nothing when there is no server
OriginOf(servers) ==
    IF servers = << >> THEN ""
    ELSE IF UrlParses(servers[1].url) THEN UrlOrigin(servers[1].url)
    ELSE SplitSlashFirst(servers[1].url)

\* an overview answered with the full operation lines (method, origin, path)
FullOverviewAnswered(r) ==
    /\ OverviewAnswered(r)
    /\ JsonStringifyLen(OverviewItems(ToolArgs(r).id, converted[r])) <= 50000

\* C17: the origin printed in an operation's line is the origin of the
\* operation's own servers[0].url when it declares a server, otherwise
\* (servers absent or an empty list) of the document's servers[0].url; an
\* unparsable url gives its first "/"-separated segment; the origin is
\* empty only when no server is declared anywhere
C17_OriginFallsBackToRoot ==
    \A r \in Slots :
        FullOverviewAnswered(r)
        => LET doc == converted[r]
               lines == SplitLines(TextOf(ResultOf(r)))
           IN  \A q \in OperationPlaces(doc) :
                  LET line == lines[2 + HeaderBlockLen(doc) + PlaceRank(doc, q)]
                  IN  StartsWith(line[4].s,
                         toUpperCase(q[2]) \o " " \o OriginOf(ChosenServers(doc, q))
                            \o doc.paths[q[1]].path)

\* what follows "https://oapis.org/openapi/<hostname>/" in a pointer URL
PointerToken(openapiUrl, hostname) ==
    LET prefix == "https://oapis.org/openapi/" \o hostname \o "/"
    IN  IF StartsWith(openapiUrl, prefix)
        THEN SubSeq(openapiUrl, Len(prefix) + 1, Len(openapiUrl))
        ELSE ""

\* the pointer token the overview of doc prints for the operation at q
PointerTokenAt(hostname, doc, q) ==
    PointerToken(OverviewItem(hostname, doc, doc.paths[q[1]].path, q[2],
                              OperationAt(doc, q)).openapiUrl,
                 hostname)

\* C18: the token printed after the host label in an operation's
\* '( Spec: ... )' pointer URL, given to getApiOperation on the same
\* document, answers with that operation under its own path and method
C18_PointerRoundTrip ==
    \A r \in Slots :
        ( /\ HttpToolCall(r, "getApiOperation")
          /\ Normalized(r)
          /\ Has(ToolArgs(r), "operationIdOrRoute") )
        => \A q \in OperationPlaces(converted[r]) :
              PointerTokenAt(ToolArgs(r).id, converted[r], q)
                 = ToolArgs(r).operationIdOrRoute
              => /\ ResultOf(r).isError = FALSE
                 /\ DumpedValue(TextOf(ResultOf(r)), "paths")
                       = <<[path |-> converted[r].paths[q[1]].path,
                            item |-> (q[2] :>
                                        Shown(r, OperationAt(converted[r], q)))]>>

\* everything the model keeps of the request in slot o
SlotState(o) ==
    <<pc[o], request[o], fetched[o], converted[o], convCalls[o], deref[o],
      response[o], timer[o]>>

\* the answers to req when searchOpenapi gives no document
SearchFailureAnswers(req) ==
    {jsonRpcResponse(req.body.message.id, ErrorResult(<<Lit(m)>>)) :
        m \in {"OpenAPI not found", "fetch failed", "Could not parse OpenAPI JSON"}}

\* the answers to a tools/list request
CatalogAnswers(req) ==
    {ParseErrorResponse}
    \cup {jsonRpcResponse(req.body.message.id, [tools |-> ToolDescriptors(out.text)]) :
            out \in {o \in CatalogOutcomes : o.kind = "text"}}

\* the response in slot r is the one its own request and the upstream
\* answers its own call received determine
AnsweredFromOwn(r) ==
    LET req == request[r]
        start == fetchHandler(req)
    IN  IF start.pc = "done" THEN response[r] = start.response
        ELSE IF start.pc = "catalog" THEN response[r] \in CatalogAnswers(req)
        ELSE IF fetched[r] = Undefined THEN response[r] \in SearchFailureAnswers(req)
        ELSE /\ IF IsLegacy(fetched[r])
                THEN /\ converted[r] \in ConverterOutcomes
                     /\ timer[r] = "fired" => converted[r] = Undefined
                ELSE converted[r] = fetched[r]
             /\ response[r]
                  = jsonRpcResponse(req.body.message.id,
                       ToolResult(req.body.message.params.name,
                                  req.body.message.params.arguments,
                                  converted[r], deref[r] = "threw"))

\* a request waiting at an upstream await has no response yet and waits
\* where its own handler suspends
SuspendedFromOwn(r) ==
    /\ response[r] = Undefined
    /\ fetchHandler(request[r]).pc = (IF pc[r] = "catalog" THEN "catalog" ELSE "search")

\* C19: no state is shared across requests: in every interleaving of two
\* requests to the HTTP dispatcher each step touches one request only, and
\* the response to a request is determined by that request and the upstream
\* answers it received, whatever the other request is (an initialize, a
\* notification, another tool call waiting at its await)
C19_NoSharedState ==
    /\ [](\A r \in Slots :
            /\ (pc[r] = "done" /\ request[r].transport = "http")
               => AnsweredFromOwn(r)
            /\ pc[r] \in {"search", "catalog", "convert", "aborted"}
               => SuspendedFromOwn(r))
    /\ [][\E r \in Slots : \A o \in Slots \ {r} : SlotState(o)' = SlotState(o)]_vars

\* C19 witness: one getApiOperation call answered with an operation while
\* another call of the same tool, received for another token, waits on the
\* converter
C19_Witness ==
    \E r, o \in Slots :
        /\ r # o
        /\ HttpToolCall(r, "getApiOperation")
        /\ ResultOf(r).isError = FALSE
        /\ pc[o] = "convert"
        /\ request[o].body.message.params.name = "getApiOperation"
        /\ request[o].body.message.params.arguments.operationIdOrRoute
             # request[r].body.message.params.arguments.operationIdOrRoute

====
